---- MODULE Spec2Model ----
(***************************************************************************)
(* A model of serve.py: the markdown renderer md_to_html and the request   *)
(* handler MarkdownHandler.do_GET, served by the sequential TCPServer loop *)
(* of __main__.                                                            *)
(*                                                                         *)
(* Text is a sequence of one-character strings, so that every regular      *)
(* expression of md_to_html is computed on characters, as re.sub computes  *)
(* it: leftmost match first, the scan resuming after the match.            *)
(***************************************************************************)
EXTENDS Integers, Sequences, FiniteSets, TLC

(***************************************************************************)
(* Strings                                                                 *)
(***************************************************************************)

NL == "\n"

\* The backtick character, which a TLA+ string cannot hold: written by name.
Backtick == "BACKTICK"

\* The characters \s matches, among those the model draws.
Whitespace == {" ", NL}

\* The characters \d matches.
Digits == {"0", "1", "2", "3", "4", "5", "6", "7", "8", "9"}

\* pat occurs in s at index i.
StartsWithAt(s, i, pat) ==
    /\ i >= 1
    /\ i + Len(pat) - 1 <= Len(s)
    /\ \A k \in 1..Len(pat) : s[i + k - 1] = pat[k]

\* The least index >= i at which pat occurs in s; 0 when there is none.
FindFrom(s, i, pat) ==
    LET hits == {j \in i..(Len(s) - Len(pat) + 1) : StartsWithAt(s, j, pat)}
    IN IF hits = {} THEN 0 ELSE CHOOSE j \in hits : \A k \in hits : j <= k

\* The least index >= i holding a character of cs; Len(s) + 1 when none.
FirstOf(s, i, cs) ==
    LET hits == {j \in i..Len(s) : s[j] \in cs}
    IN IF hits = {} THEN Len(s) + 1 ELSE CHOOSE j \in hits : \A k \in hits : j <= k

\* The least index >= i holding a character outside cs; Len(s) + 1 when none.
FirstNotOf(s, i, cs) ==
    LET hits == {j \in i..Len(s) : s[j] \notin cs}
    IN IF hits = {} THEN Len(s) + 1 ELSE CHOOSE j \in hits : \A k \in hits : j <= k

Contains(s, pat) == FindFrom(s, 1, pat) # 0

\* The number of (possibly overlapping) occurrences of pat in s.
Count(s, pat) == Cardinality({j \in 1..Len(s) : StartsWithAt(s, j, pat)})

RECURSIVE ReplaceFrom(_, _, _, _)
ReplaceFrom(s, i, old, new) ==
    LET j == FindFrom(s, i, old)
    IN IF j = 0
       THEN SubSeq(s, i, Len(s))
       ELSE SubSeq(s, i, j - 1) \o new \o ReplaceFrom(s, j + Len(old), old, new)

\* str.replace(old, new): every non-overlapping occurrence, left to right.
Replace(s, old, new) == ReplaceFrom(s, 1, old, new)

(***************************************************************************)
(* The tags md_to_html writes                                              *)
(***************************************************************************)

Hashes(n) == [k \in 1..n |-> "#"]

HOpen(n) == <<"<", "h", ToString(n), ">">>

HClose(n) == <<"<", "/", "h", ToString(n), ">">>

StrongEmOpen == <<"<","s","t","r","o","n","g",">","<","e","m",">">>

StrongEmClose == <<"<","/","e","m",">","<","/","s","t","r","o","n","g",">">>

StrongOpen == <<"<","s","t","r","o","n","g",">">>

StrongClose == <<"<","/","s","t","r","o","n","g",">">>

EmOpen == <<"<","e","m",">">>

EmClose == <<"<","/","e","m",">">>

ImgSrc == <<"<","i","m","g"," ","s","r","c","=","\"">>

ImgAlt == <<"\""," ","a","l","t","=","\"">>

ImgEnd == <<"\""," ","s","t","y","l","e","=","\"","m","a","x","-","w","i","d","t","h",":","1","0","0","%","\"",">">>

AOpen == <<"<","a"," ","h","r","e","f","=","\"">>

AMid == <<"\"",">">>

AClose == <<"<","/","a",">">>

LiOpen == <<"<","l","i",">">>

LiClose == <<"<","/","l","i",">">>

CodeOpen == <<"<","c","o","d","e",">">>

CodeClose == <<"<","/","c","o","d","e",">">>

POpen == <<"<","p",">">>

PClose == <<"<","/","p",">">>

UlOpen == <<"<","u","l",">">>

UlClose == <<"<","/","u","l",">">>

(***************************************************************************)
(* md_to_html, stage by stage                                              *)
(***************************************************************************)

\* A variant of the escaping that escapes '&' last, so that it escapes the
\* entities of '<' and '>' again.
EscapeHtmlAmpLast(s) ==
    Replace(Replace(Replace(s, <<"<">>, <<"&","l","t",";">>),
                    <<">">>, <<"&","g","t",";">>),
            <<"&">>, <<"&","a","m","p",";">>)

\* html.replace('&', '&amp;').replace('<', '&lt;').replace('>', '&gt;')
EscapeHtml(s) ==
    Replace(Replace(Replace(s, <<"&">>, <<"&","a","m","p",";">>),
                    <<"<">>, <<"&","l","t",";">>),
            <<">">>, <<"&","g","t",";">>)

\* re.sub(r'^PREFIX(.+)$', r'OPEN\1CLOSE', s, flags=re.MULTILINE) from the
\* line that starts at i: '.' matches no newline, so the group is the rest of
\* the line, and it must not be empty.
RECURSIVE LineSubFrom(_, _, _, _, _)
LineSubFrom(s, i, prefix, open, close) ==
    IF i > Len(s) THEN <<>>
    ELSE LET e == FirstOf(s, i, {NL})
             hit == StartsWithAt(s, i, prefix) /\ i + Len(prefix) < e
             line == IF hit
                     THEN open \o SubSeq(s, i + Len(prefix), e - 1) \o close
                     ELSE SubSeq(s, i, e - 1)
         IN IF e > Len(s) THEN line
            ELSE line \o <<NL>> \o LineSubFrom(s, e + 1, prefix, open, close)

LineSub(s, prefix, open, close) == LineSubFrom(s, 1, prefix, open, close)

\* re.sub(r'^#{n} (.+)$', r'<hn>\1</hn>', html, flags=re.MULTILINE)
Header(s, n) == LineSub(s, Hashes(n) \o <<" ">>, HOpen(n), HClose(n))

\* A variant of the header substitutions that lacks the one for h6.
HeadersNoH6(s) == Header(Header(Header(Header(Header(s, 5), 4), 3), 2), 1)

\* The six header substitutions, h6 first.
Headers(s) == Header(Header(Header(Header(Header(Header(s, 6), 5), 4), 3), 2), 1)

\* re.sub(r'D(.+?)D', r'OPEN\1CLOSE', s) from index i, D a run of asterisks:
\* the group is lazy, at least one character, and holds no newline.
RECURSIVE SpanSubFrom(_, _, _, _, _)
SpanSubFrom(s, i, delim, open, close) ==
    IF i > Len(s) THEN <<>>
    ELSE LET from == i + Len(delim)
             nl == FirstOf(s, from, {NL})
             j == IF StartsWithAt(s, i, delim) THEN FindFrom(s, from + 1, delim) ELSE 0
         IN IF j # 0 /\ j < nl
            THEN open \o SubSeq(s, from, j - 1) \o close
                      \o SpanSubFrom(s, j + Len(delim), delim, open, close)
            ELSE <<s[i]>> \o SpanSubFrom(s, i + 1, delim, open, close)

SpanSub(s, delim, open, close) == SpanSubFrom(s, 1, delim, open, close)

\* Bold and italic: ***x***, then **x**, then *x*.
Emphasis(s) ==
    SpanSub(SpanSub(SpanSub(s, <<"*","*","*">>, StrongEmOpen, StrongEmClose),
                    <<"*","*">>, StrongOpen, StrongClose),
            <<"*">>, EmOpen, EmClose)

\* The match of  \[(TEXT)\]\(([^)]+)\)  whose '[' is at index b, TEXT being
\* [^\]]* (minText = 0) or [^\]]+ (minText = 1): <<index of ']', index of ')'>>,
\* or <<0, 0>> when there is no match there.
BracketMatch(s, b, minText) ==
    LET rb == FirstOf(s, b + 1, {"]"})
        rp == FirstOf(s, rb + 2, {")"})
    IN IF /\ b <= Len(s) /\ s[b] = "["
          /\ rb <= Len(s) /\ rb - (b + 1) >= minText
          /\ StartsWithAt(s, rb, <<"]", "(">>)
          /\ rp <= Len(s) /\ rp > rb + 2
       THEN <<rb, rp>> ELSE <<0, 0>>

\* re.sub(r'!\[([^\]]*)\]\(([^)]+)\)', r'<img src="\2" alt="\1" style="max-width:100%">', s)
RECURSIVE ImagesFrom(_, _)
ImagesFrom(s, i) ==
    IF i > Len(s) THEN <<>>
    ELSE LET m == IF s[i] = "!" THEN BracketMatch(s, i + 1, 0) ELSE <<0, 0>>
         IN IF m[1] # 0
            THEN ImgSrc \o SubSeq(s, m[1] + 2, m[2] - 1) \o ImgAlt
                        \o SubSeq(s, i + 2, m[1] - 1) \o ImgEnd
                        \o ImagesFrom(s, m[2] + 1)
            ELSE <<s[i]>> \o ImagesFrom(s, i + 1)

Images(s) == ImagesFrom(s, 1)

\* re.sub(r'\[([^\]]+)\]\(([^)]+)\)', r'<a href="\2">\1</a>', s)
RECURSIVE LinksFrom(_, _)
LinksFrom(s, i) ==
    IF i > Len(s) THEN <<>>
    ELSE LET m == BracketMatch(s, i, 1)
         IN IF m[1] # 0
            THEN AOpen \o SubSeq(s, m[1] + 2, m[2] - 1) \o AMid
                       \o SubSeq(s, i + 1, m[1] - 1) \o AClose
                       \o LinksFrom(s, m[2] + 1)
            ELSE <<s[i]>> \o LinksFrom(s, i + 1)

Links(s) == LinksFrom(s, 1)

\* A variant of the list substitution without re.MULTILINE: '^' and '$' are
\* then the ends of the text, which '.+' spans only if it has one line.
UnorderedListsNoMultiline(s) ==
    IF NL \in {s[k] : k \in 1..Len(s)} THEN s
    ELSE LineSub(s, <<"-", " ">>, LiOpen, LiClose)

\* re.sub(r'^- (.+)$', r'<li>\1</li>', html, flags=re.MULTILINE)
UnorderedLists(s) == LineSub(s, <<"-", " ">>, LiOpen, LiClose)

\* re.sub(r'^\d+\.\s+(.+)$', r'<li>\1</li>', s, flags=re.MULTILINE) from the
\* line that starts at i. \s+ is greedy and matches newlines too: it gives
\* characters back until the group finds a character that is no newline.
RECURSIVE OrderedListsFrom(_, _)
OrderedListsFrom(s, i) ==
    IF i > Len(s) THEN <<>>
    ELSE LET dot == FirstNotOf(s, i, Digits)
             ws == dot + 1
             stop == FirstNotOf(s, ws, Whitespace)
             starts == {p \in (ws + 1)..stop : p <= Len(s) /\ s[p] # NL}
             hit == /\ dot > i /\ dot <= Len(s) /\ s[dot] = "."
                    /\ starts # {}
             p == CHOOSE q \in starts : \A r \in starts : r <= q
             e == IF hit THEN FirstOf(s, p, {NL}) ELSE FirstOf(s, i, {NL})
             line == IF hit
                     THEN LiOpen \o SubSeq(s, p, e - 1) \o LiClose
                     ELSE SubSeq(s, i, e - 1)
         IN IF e > Len(s) THEN line
            ELSE line \o <<NL>> \o OrderedListsFrom(s, e + 1)

OrderedLists(s) == OrderedListsFrom(s, 1)

\* re.sub(r'B([^B]+)B', r'<code>\1</code>', s), B the backtick.
RECURSIVE CodeSpansFrom(_, _)
CodeSpansFrom(s, i) ==
    IF i > Len(s) THEN <<>>
    ELSE LET j == IF s[i] = Backtick THEN FirstOf(s, i + 1, {Backtick}) ELSE Len(s) + 1
         IN IF j <= Len(s) /\ j > i + 1
            THEN CodeOpen \o SubSeq(s, i + 1, j - 1) \o CodeClose
                          \o CodeSpansFrom(s, j + 1)
            ELSE <<s[i]>> \o CodeSpansFrom(s, i + 1)

CodeSpans(s) == CodeSpansFrom(s, 1)

\* re.sub(r'\n\n+', '</p><p>', s)
RECURSIVE ParagraphBreaksFrom(_, _)
ParagraphBreaksFrom(s, i) ==
    IF i > Len(s) THEN <<>>
    ELSE LET j == FirstNotOf(s, i, {NL})
         IN IF j >= i + 2
            THEN PClose \o POpen \o ParagraphBreaksFrom(s, j)
            ELSE <<s[i]>> \o ParagraphBreaksFrom(s, i + 1)

\* html = '<p>' + re.sub(r'\n\n+', '</p><p>', html) + '</p>'
Paragraphs(s) == POpen \o ParagraphBreaksFrom(s, 1) \o PClose

\* re.sub(r'<p>\s*</p>', '', s)
RECURSIVE EmptyParagraphsFrom(_, _)
EmptyParagraphsFrom(s, i) ==
    IF i > Len(s) THEN <<>>
    ELSE LET j == FirstNotOf(s, i + Len(POpen), Whitespace)
         IN IF StartsWithAt(s, i, POpen) /\ StartsWithAt(s, j, PClose)
            THEN EmptyParagraphsFrom(s, j + Len(PClose))
            ELSE <<s[i]>> \o EmptyParagraphsFrom(s, i + 1)

\* re.sub(r'<p>(<li>)', r'<ul>\1', s)
ListOpen(s) == Replace(s, POpen \o LiOpen, UlOpen \o LiOpen)

\* re.sub(r'(</li>)</p>', r'\1</ul>', s)
ListClose(s) == Replace(s, LiClose \o PClose, LiClose \o UlClose)

\* Clean up empty paragraphs and fix list items.
CleanUp(s) == ListClose(ListOpen(EmptyParagraphsFrom(s, 1)))

\* The body md_to_html puts into the page template.
RenderBody(md_content) ==
    CleanUp(Paragraphs(CodeSpans(OrderedLists(UnorderedLists(
        Links(Images(Emphasis(Headers(EscapeHtml(md_content))))))))))

\* The page: the fixed template with its two holes, {title} and {html}.
md_to_html(md_content, title) == [title |-> title, body |-> RenderBody(md_content)]

(***************************************************************************)
(* Paths and the file system                                               *)
(***************************************************************************)

\* A path is the sequence of its parts, as pathlib keeps it; a part and a
\* path string are texts.

RECURSIVE SplitFrom(_, _, _)
SplitFrom(s, i, sep) ==
    LET e == FirstOf(s, i, {sep})
    IN IF e > Len(s) THEN <<SubSeq(s, i, Len(s))>>
       ELSE <<SubSeq(s, i, e - 1)>> \o SplitFrom(s, e + 1, sep)

\* s.split(sep)
Split(s, sep) == SplitFrom(s, 1, sep)

RECURSIVE Join(_)
\* '/'.join(parts)
Join(parts) ==
    IF parts = <<>> THEN <<>>
    ELSE IF Len(parts) = 1 THEN parts[1]
    ELSE parts[1] \o <<"/">> \o Join(Tail(parts))

IsPart(w) == w # <<>> /\ w # <<".">>

\* Path(s): empty and '.' components are dropped, '..' is kept.
PathOf(s) == SelectSeq(Split(s, "/"), IsPart)

\* str(path)
StrOf(parts) == IF parts = <<>> THEN <<".">> ELSE Join(parts)

EndsWith(s, suffix) == StartsWithAt(s, Len(s) - Len(suffix) + 1, suffix)

DotMd == <<".", "m", "d">>

DotPdf == <<".", "p", "d", "f">>

\* path.stem: the last part without its last suffix.
Stem(parts) ==
    LET name == parts[Len(parts)]
        dots == {j \in 1..Len(name) : name[j] = "."}
        i == CHOOSE j \in dots : \A k \in dots : k <= j
    IN IF dots # {} /\ 1 < i /\ i < Len(name) THEN SubSeq(name, 1, i - 1) ELSE name

\* The characters of the model's path names, in code point order.
CodePoints == <<"-", ".", "/", "a", "d", "f", "i", "m", "o", "p", "q", "s", "t", "x">>

Ord(c) == CHOOSE i \in 1..Len(CodePoints) : CodePoints[i] = c

RECURSIVE StrLess(_, _)
\* str.__lt__: character by character, a proper prefix first.
StrLess(a, b) ==
    IF b = <<>> THEN FALSE
    ELSE IF a = <<>> THEN TRUE
    ELSE IF a[1] = b[1] THEN StrLess(Tail(a), Tail(b))
    ELSE Ord(a[1]) < Ord(b[1])

RECURSIVE PathLess(_, _)
\* Path.__lt__: the parts are compared as a list of strings.
PathLess(a, b) ==
    IF b = <<>> THEN FALSE
    ELSE IF a = <<>> THEN TRUE
    ELSE IF a[1] = b[1] THEN PathLess(Tail(a), Tail(b))
    ELSE StrLess(a[1], b[1])

RECURSIVE Sorted(_)
\* sorted(paths)
Sorted(paths) ==
    IF paths = {} THEN <<>>
    ELSE LET least == CHOOSE p \in paths : \A q \in paths \ {p} : PathLess(p, q)
         IN <<least>> \o Sorted(paths \ {least})

P == <<"p">>

Q == <<"q">>

Dist == <<"d", "i", "s", "t">>

Md == <<"m", "d">>

Pdf == <<"p", "d", "f">>

Up == <<".", ".">>

\* The places of the model's directory tree, relative to the working
\* directory the server was started in.
DocA == <<P, Dist, Md, <<"a", ".", "m", "d">> >>

PdfA == <<P, Dist, Pdf, <<"a", ".", "p", "d", "f">> >>

DocD == <<P, Dist, Md, <<"d", ".", "m", "d">> >>

DocQ == <<Q, Md, Dist, Md, <<"a", ".", "m", "d">> >>

PdfQ == <<Q, Md, Dist, Pdf, <<"a", ".", "p", "d", "f">> >>

PdfQAll == <<Q, Pdf, Dist, Pdf, <<"a", ".", "p", "d", "f">> >>

TopT == <<Dist, Md, <<"t", ".", "m", "d">> >>

StaticS == <<P, <<"s", ".", "t", "x", "t">> >>

OutsideO == <<Up, <<"o", ".", "m", "d">> >>

Tree == {DocA, PdfA, DocD, DocQ, PdfQ, PdfQAll, TopT, StaticS, OutsideO}

\* The texts a markdown file of the model holds.
Texts == {<<"#", " ", "T">>, <<"a", "<", "b">>}

Absent == [kind |-> "absent", text |-> <<>>]

File(text) == [kind |-> "file", text |-> text]

\* A file whose bytes are no UTF-8 text (read_text raises), and a directory.
Undecodable == [kind |-> "undecodable", text |-> <<>>]

Directory == [kind |-> "dir", text |-> <<>>]

\* What may be created at a place of the tree.
Creatable(p) ==
    IF p = DocA THEN {File(t) : t \in Texts}
    ELSE IF p = DocD THEN {Directory, Undecodable}
    ELSE IF p \in {DocQ, TopT, OutsideO} THEN {File(<<"-", " ", "x">>)}
    ELSE {File(<<>>)}

IsPrefix(a, b) == Len(a) < Len(b) /\ SubSeq(b, 1, Len(a)) = a

\* The entry at a path of a tree (a function from the places that hold
\* something to what they hold): a created entry, or the directory above one.
Entry(tree, parts) ==
    IF parts \in DOMAIN tree THEN tree[parts]
    ELSE IF \E q \in DOMAIN tree : IsPrefix(parts, q) THEN Directory
    ELSE Absent

\* Path.exists()
Exists(tree, parts) == Entry(tree, parts) # Absent

\* Path('.').rglob('*/dist/md/*.md'): a directory, then dist, then md, then a
\* name ending in .md (a file or a directory), at any depth.
RGlob(tree) ==
    {p \in DOMAIN tree :
        /\ Len(p) >= 4
        /\ p[Len(p) - 2] = Dist
        /\ p[Len(p) - 1] = Md
        /\ EndsWith(p[Len(p)], DotMd)
        /\ Up \notin {p[k] : k \in 1..Len(p)}}

(***************************************************************************)
(* MarkdownHandler.do_GET                                                  *)
(***************************************************************************)

\* The %XX escapes of the model's requests and the characters they stand for.
Escapes == {<< <<"%", "2", "E">>, "." >>, << <<"%", "2", "F">>, "/" >>}

RECURSIVE UnquoteFrom(_, _)
UnquoteFrom(s, i) ==
    IF i > Len(s) THEN <<>>
    ELSE LET hits == {e \in Escapes : StartsWithAt(s, i, e[1])}
         IN IF hits # {}
            THEN <<(CHOOSE e \in hits : TRUE)[2]>> \o UnquoteFrom(s, i + 3)
            ELSE <<s[i]>> \o UnquoteFrom(s, i + 1)

\* urllib.parse.unquote
unquote(s) == UnquoteFrom(s, 1)

HtmlType == "text/html; charset=utf-8"

NoFilesFound ==
    <<"N","o"," ","f","i","l","e","s"," ","f","o","u","n","d","."," ",
      "R","u","n"," ",".","/","h","t","m","l","2","m","d",".","s","h"," ",
      "f","i","r","s","t",".">>

NoPage == [kind |-> "none", title |-> <<>>, body |-> <<>>, links |-> <<>>]

NoStatic == [status |-> 0, file |-> <<>>, text |-> <<>>]

\* The response to one request: what do_GET itself sent (status 0: no status
\* line), whether it raised, and what the inherited handler sent.
NoResponse == [status |-> 0, ctype |-> "", page |-> NoPage, raised |-> FALSE,
               static |-> NoStatic]

\* pdf = Path(str(md).replace('/md/', '/pdf/').replace('.md', '.pdf'))
PdfPath(md) ==
    PathOf(Replace(Replace(StrOf(md), <<"/", "m", "d", "/">>, <<"/", "p", "d", "f", "/">>),
                   DotMd, DotPdf))

\* One entry of links: the document link and, if pdf.exists(), the PDF link.
Link(tree, md) ==
    [kind |-> "doc",
     href |-> <<"/">> \o StrOf(md),
     text |-> Stem(md),
     pdf |-> IF Exists(tree, PdfPath(md)) THEN <<"/">> \o StrOf(PdfPath(md)) ELSE <<>>]

Placeholder == [kind |-> "placeholder", href |-> <<>>, text |-> NoFilesFound, pdf |-> <<>>]

RECURSIVE Reversed(_)
Reversed(q) == IF q = <<>> THEN <<>> ELSE Append(Reversed(Tail(q)), q[1])

\* A variant of links_html that lists the matches in another order than
\* sorted() gives.
LinksHtmlUnsorted(tree) ==
    LET md_files == Reversed(Sorted(RGlob(tree)))
        links == [k \in 1..Len(md_files) |-> Link(tree, md_files[k])]
    IN IF links # <<>> THEN links ELSE <<Placeholder>>

\* links_html: the entries of the sorted matches, or the placeholder.
LinksHtml(tree) ==
    LET md_files == Sorted(RGlob(tree))
        links == [k \in 1..Len(md_files) |-> Link(tree, md_files[k])]
    IN IF links # <<>> THEN links ELSE <<Placeholder>>

\* The home page branch.
IndexResponse(tree) ==
    [status |-> 200, ctype |-> HtmlType,
     page |-> [kind |-> "index", title |-> <<>>, body |-> <<>>, links |-> LinksHtml(tree)],
     raised |-> FALSE, static |-> NoStatic]

\* The markdown branch, entered when file_path.exists(): the status line and
\* the headers are sent, then read_text() returns the text or raises.
MarkdownResponse(tree, file_path) ==
    LET e == Entry(tree, file_path)
        html == md_to_html(e.text, Stem(file_path))
    IN IF e.kind = "file"
       THEN [status |-> 200, ctype |-> HtmlType,
             page |-> [kind |-> "document", title |-> html.title, body |-> html.body,
                       links |-> <<>>],
             raised |-> FALSE, static |-> NoStatic]
       ELSE [status |-> 200, ctype |-> HtmlType, page |-> NoPage,
             raised |-> TRUE, static |-> NoStatic]

RECURSIVE NormParts(_, _)
\* translate_path: '.' and empty components dropped, '..' climbing no
\* higher than the served directory.
NormParts(words, acc) ==
    IF words = <<>> THEN acc
    ELSE IF words[1] = Up
         THEN NormParts(Tail(words), IF acc = <<>> THEN acc ELSE SubSeq(acc, 1, Len(acc) - 1))
    ELSE IF IsPart(words[1]) THEN NormParts(Tail(words), Append(acc, words[1]))
    ELSE NormParts(Tail(words), acc)

\* super().do_GET(): SimpleHTTPRequestHandler on the raw request path.
StaticResponse(tree, raw) ==
    LET file == NormParts(Split(unquote(raw), "/"), <<>>)
        e == IF file = <<>> THEN Directory ELSE Entry(tree, file)
    IN [status |-> 0, ctype |-> "", page |-> NoPage, raised |-> FALSE,
        static |-> IF e = Absent THEN [status |-> 404, file |-> file, text |-> <<>>]
                   ELSE IF e.kind = "dir" /\ raw[Len(raw)] # "/"
                        THEN [status |-> 301, file |-> file, text |-> <<>>]
                   ELSE [status |-> 200, file |-> file, text |-> e.text]]

do_GET(tree, raw) ==
    LET path == unquote(raw)
        file_path == PathOf(<<".">> \o path)
    IN IF path = <<"/">> \/ path = <<>> THEN IndexResponse(tree)
       ELSE IF EndsWith(path, DotMd) /\ Exists(tree, file_path)
            THEN MarkdownResponse(tree, file_path)
       ELSE StaticResponse(tree, raw)

(***************************************************************************)
(* The server: socketserver.TCPServer.serve_forever, one request at a time *)
(***************************************************************************)

\* The request paths of the model, as they arrive (still quoted).
Requests ==
    {<<"/">>,
     <<"/">> \o Join(DocA),
     <<"/">> \o Join(<<P, Dist, Md, <<"a", "%", "2", "E", "m", "d">> >>),
     <<"/">> \o Join(DocD),
     <<"/">> \o Join(DocQ),
     <<"/">> \o Join(TopT),
     <<"/">> \o Join(OutsideO),
     <<"/">> \o Join(PdfA),
     <<"/">> \o Join(StaticS),
     <<"/">> \o Join(<<P>>)}

\* The most requests that may have raised: a bound of the model.
MaxAborted == 1

\* A variant of the loop that an exception of a request ends.
HandleErrorStops(serving, raised) == serving /\ ~raised

\* serve_forever after a request raised: the exception is reported, the
\* request is closed, and the loop goes on.
HandleError(serving, raised) == serving

VARIABLES
    fs,         \* the directory tree: the places that hold something -> entry
    pc,         \* "idle", "responded" (a response is on the wire), "stopped"
    request,    \* the path of the request being answered
    response,   \* the response to it
    aborted,    \* how many requests raised so far
    serving,    \* serve_forever is looping
    md_content, \* the text given to md_to_html
    html,       \* the body md_to_html made of it
    rendered    \* md_to_html has returned

vars == <<fs, pc, request, response, aborted, serving, md_content, html, rendered>>

serverVars == <<fs, pc, request, response, aborted, serving>>

renderVars == <<md_content, html, rendered>>

InitServer ==
    /\ fs = <<>>
    /\ pc = "idle"
    /\ request = <<>>
    /\ response = NoResponse
    /\ aborted = 0
    /\ serving = TRUE

Init ==
    /\ InitServer
    /\ md_content = <<>>
    /\ html = <<>>
    /\ rendered = FALSE

\* A file or directory appears in the tree, between two requests.
Create(p, e) ==
    /\ pc = "idle"
    /\ p \notin DOMAIN fs
    /\ fs' = [q \in DOMAIN fs \cup {p} |-> IF q = p THEN e ELSE fs[q]]
    /\ UNCHANGED <<pc, request, response, aborted, serving>>
    /\ UNCHANGED renderVars

\* A file or directory is removed, between two requests.
Remove(p) ==
    /\ pc = "idle"
    /\ p \in DOMAIN fs
    /\ fs' = [q \in DOMAIN fs \ {p} |-> fs[q]]
    /\ UNCHANGED <<pc, request, response, aborted, serving>>
    /\ UNCHANGED renderVars

\* One GET request is accepted and handled by do_GET.
Get(raw) ==
    /\ pc = "idle"
    /\ serving
    /\ LET r == do_GET(fs, raw)
       IN /\ r.raised => aborted < MaxAborted
          /\ response' = r
          /\ aborted' = IF r.raised THEN aborted + 1 ELSE aborted
          /\ serving' = HandleError(serving, r.raised)
    /\ request' = raw
    /\ pc' = "responded"
    /\ UNCHANGED fs
    /\ UNCHANGED renderVars

\* shutdown_request: the connection is closed and the loop accepts again.
Finish ==
    /\ pc = "responded"
    /\ pc' = IF serving THEN "idle" ELSE "stopped"
    /\ request' = <<>>
    /\ response' = NoResponse
    /\ UNCHANGED <<fs, aborted, serving>>
    /\ UNCHANGED renderVars

\* Ctrl+C: KeyboardInterrupt ends serve_forever.
Interrupt ==
    /\ pc = "idle"
    /\ serving
    /\ serving' = FALSE
    /\ pc' = "stopped"
    /\ UNCHANGED <<fs, request, response, aborted>>
    /\ UNCHANGED renderVars

Next ==
    \/ \E p \in Tree : \E e \in Creatable(p) : Create(p, e)
    \/ \E p \in Tree : Remove(p)
    \/ \E raw \in Requests : Get(raw)
    \/ Finish
    \/ Interrupt

Spec == Init /\ [][Next]_vars

(***************************************************************************)
(* md_to_html on its own: one text is drawn, then rendered                 *)
(***************************************************************************)

RECURSIVE Flatten(_)
\* The pieces of a sequence, one after the other.
Flatten(pieces) ==
    IF pieces = <<>> THEN <<>> ELSE pieces[1] \o Flatten(Tail(pieces))

\* Every sequence of at most n pieces, flattened.
TextsOf(pieces, n) ==
    {Flatten(q) : q \in UNION {[1..k -> pieces] : k \in 0..n}}

\* html = md_to_html(md_content, ...): the body of the page.
Render ==
    /\ ~rendered
    /\ html' = RenderBody(md_content)
    /\ rendered' = TRUE
    /\ UNCHANGED md_content
    /\ UNCHANGED serverVars

RenderNext == Render

\* The server is not started and serves an empty directory.
InitRender(texts) ==
    /\ fs = <<>>
    /\ pc = "stopped"
    /\ request = <<>>
    /\ response = NoResponse
    /\ aborted = 0
    /\ serving = FALSE
    /\ md_content \in texts
    /\ html = <<>>
    /\ rendered = FALSE

\* Texts that mix the three metacharacters with markup.
EscapePieces ==
    {<<"&">>, <<"<">>, <<">">>, <<"*">>, <<NL>>, <<"#", " ">>, <<"-", " ">>,
     <<"[", "<", "]", "(">>, <<")">>, <<"!">>}

MaxEscapePieces == 4

SpecEscape == InitRender(TextsOf(EscapePieces, MaxEscapePieces)) /\ [][RenderNext]_vars

\* Texts of one or two lines, each a run of hashes and a rest.
HeaderRests ==
    {<<>>, <<" ">>, <<" ", "A">>, <<" ", " ">>, <<"A">>, <<" ", "*", "A", "*">>,
     <<" ", "!", "[", "A">>, <<"]", "(", "u", ")">>}

MaxHashes == 7

HeaderLines == {Hashes(n) \o r : n \in 0..MaxHashes, r \in HeaderRests}

HeaderTexts == HeaderLines \cup {a \o <<NL>> \o b : a \in HeaderLines, b \in HeaderLines}

SpecHeader == InitRender(HeaderTexts) /\ [][RenderNext]_vars

\* Texts made only of '- item' lines: the pieces of the items, and the
\* break between two lines.
ListBreak == <<NL, "-", " ">>

ListPieces ==
    {<<"a">>, <<" ">>, <<"*">>, <<Backtick>>, <<"!", "[">>, <<"]", "(", "u", ")">>,
     <<"1", ".", " ">>, <<"#", " ">>, ListBreak}

MaxListPieces == 4

\* No item is empty: no break first, last, or next to another.
ItemsNotEmpty(q) ==
    /\ q[1] # ListBreak
    /\ q[Len(q)] # ListBreak
    /\ \A k \in 1..(Len(q) - 1) : ~(q[k] = ListBreak /\ q[k + 1] = ListBreak)

ListTexts ==
    {<<"-", " ">> \o Flatten(q) :
        q \in {r \in UNION {[1..k -> ListPieces] : k \in 1..MaxListPieces} : ItemsNotEmpty(r)}}

SpecList == InitRender(ListTexts) /\ [][RenderNext]_vars

\* Texts of the form ![alt](url).
MaxAlt == 2

MaxUrl == 5

AltTexts == UNION {[1..k -> {"x", ")"}] : k \in 0..MaxAlt}

UrlTexts == UNION {[1..k -> {"x", "[", "]", "("}] : k \in 1..MaxUrl}

ImageTexts ==
    {<<"!", "[">> \o alt \o <<"]", "(">> \o url \o <<")">> : alt \in AltTexts, url \in UrlTexts}

SpecImage == InitRender(ImageTexts) /\ [][RenderNext]_vars

\* Texts of headings, list lines and plain lines, with and without blank
\* lines between them.
WrapPieces ==
    {<<"#", " ", "H">>, <<"-", " ", "a">>, <<"1", ".", " ", "b">>, <<"t">>, <<NL>>}

MaxWrapPieces == 4

SpecWrap == InitRender(TextsOf(WrapPieces, MaxWrapPieces)) /\ [][RenderNext]_vars

(***************************************************************************)
(* Properties of do_GET and the server                                     *)
(***************************************************************************)

Range(q) == {q[k] : k \in 1..Len(q)}

\* The request path names a file or directory that exists under the working
\* directory: none of its parts climbs out of it.
NamesEntryInCwd(tree, path) ==
    Up \notin Range(PathOf(path)) /\ Exists(tree, PathOf(path))

\* The documents on disk: <any directory>/dist/md/<name>.md.
Documents(tree) ==
    {p \in DOMAIN tree :
        /\ Len(p) >= 4
        /\ SubSeq(p, Len(p) - 2, Len(p) - 1) = <<Dist, Md>>
        /\ EndsWith(p[Len(p)], DotMd)}

\* The parallel path of a document: its md directory replaced by pdf and its
\* extension by .pdf, nothing else.
ParallelPdf(md) ==
    [md EXCEPT ![Len(md) - 1] = Pdf,
               ![Len(md)] = SubSeq(@, 1, Len(@) - Len(DotMd)) \o DotPdf]

\* C1: every request is answered by exactly one of three flows: '/' or '' by
\* the index page with status 200; a path ending in '.md' whose file exists
\* under the working directory by status 200, the HTML content type and the
\* body md_to_html(file text, stem); every other request by the inherited
\* static handler and nothing of do_GET's own.
C1_ThreeFlows ==
    pc = "responded" =>
        LET path == unquote(request)
            file == PathOf(path)
            doc == md_to_html(Entry(fs, file).text, Stem(file))
        IN IF path \in {<<"/">>, <<>>}
           THEN /\ response.status = 200 /\ response.ctype = HtmlType
                /\ response.page.kind = "index"
                /\ ~response.raised /\ response.static = NoStatic
           ELSE IF EndsWith(path, DotMd) /\ NamesEntryInCwd(fs, path)
           THEN /\ response.status = 200 /\ response.ctype = HtmlType
                /\ response.page = [kind |-> "document", title |-> doc.title,
                                    body |-> doc.body, links |-> <<>>]
                /\ ~response.raised /\ response.static = NoStatic
           ELSE /\ response.status = 0 /\ response.ctype = ""
                /\ response.page = NoPage
                /\ ~response.raised /\ response.static.status # 0

\* C2: a request for a path ending in '.md' whose file does not exist under
\* the working directory gets no status line or header from do_GET itself,
\* and the static handler's not-found response.
C2_MissingMarkdown ==
    (pc = "responded" /\ EndsWith(unquote(request), DotMd)
                      /\ ~NamesEntryInCwd(fs, unquote(request)))
    => /\ response.status = 0 /\ response.ctype = ""
       /\ response.page = NoPage
       /\ response.static.status = 404

\* C3: in the index, the entry of every document on disk has the PDF link
\* if and only if the document's parallel path dist/pdf/<name>.pdf exists.
C3_CompanionLink ==
    (pc = "responded" /\ response.page.kind = "index") =>
        \A d \in Documents(fs) :
            \E k \in 1..Len(response.page.links) :
                /\ response.page.links[k].href = <<"/">> \o StrOf(d)
                /\ (response.page.links[k].pdf # <<>>) <=> Exists(fs, ParallelPdf(d))

\* C4: the index answers with the documents on disk at the time of the
\* request: one entry for each, in ascending path order, and the placeholder
\* 'No files found. Run ./html2md.sh first.' if and only if there is none.
C4_IndexRecomputed ==
    (pc = "responded" /\ unquote(request) = <<"/">>) =>
        LET links == response.page.links
            docs == Documents(fs)
        IN /\ response.status = 200 /\ response.page.kind = "index"
           /\ (docs = {}) <=> (\E k \in 1..Len(links) : links[k].text = NoFilesFound)
           /\ docs = {} => links = <<Placeholder>>
           /\ docs # {} =>
                /\ Len(links) = Cardinality(docs)
                /\ \A k \in 1..Len(links) : links[k].kind = "doc"
                /\ {links[k].href : k \in 1..Len(links)} = {<<"/">> \o StrOf(d) : d \in docs}
                /\ \A j, k \in 1..Len(links) :
                      j < k => PathLess(PathOf(links[j].href), PathOf(links[k].href))

\* A state the index claim is about: three documents are listed, the first
\* of them with its PDF.
C4_Witness ==
    /\ pc = "responded" /\ unquote(request) = <<"/">>
    /\ Len(response.page.links) = 3
    /\ response.page.links[1].href = <<"/">> \o StrOf(DocA)
    /\ response.page.links[1].pdf = <<"/">> \o StrOf(PdfA)
    /\ response.page.links[3].href = <<"/">> \o StrOf(DocQ)

\* C9: a request whose read of the markdown file raises leaves the tree as
\* it was and the loop serving; every request, after however many that
\* raised, is answered from the tree and its own path alone, and after every
\* response the server accepts the next request.
C9_FaultIsolated ==
    [][ /\ (pc = "idle" /\ pc' = "responded") =>
              (fs' = fs /\ serving' /\ response' = do_GET(fs, request'))
        /\ (pc = "responded" /\ pc' # "responded") => (pc' = "idle" /\ serving')
      ]_vars

\* A state the fault claim is about: a request has raised, and a later
\* request for a document is answered in full.
C9_Witness ==
    /\ aborted >= 1
    /\ pc = "responded"
    /\ ~response.raised
    /\ response.page.kind = "document"
    /\ response.page.body # <<>>

(***************************************************************************)
(* Properties of md_to_html                                                *)
(***************************************************************************)

EndsAt(s, i, pat) == StartsWithAt(s, i - Len(pat) + 1, pat)

Entities == {<<"&","a","m","p",";">>, <<"&","l","t",";">>, <<"&","g","t",";">>}

\* How the tags md_to_html writes begin, and how they end.
TagStarts ==
    {HOpen(n) : n \in 1..6} \cup {HClose(n) : n \in 1..6} \cup
    {StrongOpen, StrongClose, EmOpen, EmClose, ImgSrc, AOpen, AClose,
     LiOpen, LiClose, CodeOpen, CodeClose, POpen, PClose, UlOpen, UlClose}

TagEnds ==
    {HOpen(n) : n \in 1..6} \cup {HClose(n) : n \in 1..6} \cup
    {StrongOpen, StrongClose, EmOpen, EmClose, ImgEnd, AMid, AClose,
     LiOpen, LiClose, CodeOpen, CodeClose, POpen, PClose, UlOpen, UlClose}

\* C5: in the body, every '<' begins and every '>' ends a tag md_to_html
\* wrote, every '&' begins one of the entities &amp; &lt; &gt;, and there is
\* exactly one entity for each '&', '<' and '>' of the text: a '<' becomes
\* '&lt;' and its '&' is not escaped again.
C5_Escaped ==
    rendered =>
        /\ \A i \in 1..Len(html) :
              /\ html[i] = "&" => \E e \in Entities : StartsWithAt(html, i, e)
              /\ html[i] = "<" => \E t \in TagStarts : StartsWithAt(html, i, t)
              /\ html[i] = ">" => \E t \in TagEnds : EndsAt(html, i, t)
        /\ Count(html, <<"&","a","m","p",";">>) = Count(md_content, <<"&">>)
        /\ Count(html, <<"&","l","t",";">>) = Count(md_content, <<"<">>)
        /\ Count(html, <<"&","g","t",";">>) = Count(md_content, <<">">>)

\* A state the escaping claim is about: the text [<](>) is rendered as a link
\* whose parts are escaped.
C5_Witness ==
    /\ rendered
    /\ md_content = <<"[", "<", "]", "(", ">", ")">>
    /\ html = POpen \o AOpen \o <<"&","g","t",";">> \o AMid \o <<"&","l","t",";">>
                    \o AClose \o PClose

\* The number of '#' a line begins with.
LeadingHashes(line) == FirstNotOf(line, 1, {"#"}) - 1

\* The line begins with n '#' followed by a space.
HashSpaceLine(line, n) ==
    LeadingHashes(line) = n /\ Len(line) > n /\ line[n + 1] = " "

\* The line begins with n '#' followed by a space and at least one more
\* character.
HeadingLine(line, n) == HashSpaceLine(line, n) /\ Len(line) > n + 1

\* C6, as stated: every line that begins with n '#' and a space, 1 <= n <= 6,
\* becomes one heading element of level n, and no other line becomes one.
C6_EveryHashSpaceLine ==
    rendered =>
        LET lines == Split(md_content, NL)
        IN \A n \in 1..6 :
              LET k == Cardinality({j \in 1..Len(lines) : HashSpaceLine(lines[j], n)})
              IN Count(html, HOpen(n)) = k /\ Count(html, HClose(n)) = k

\* C6, amended: every line that begins with n '#', a space and at least one
\* more character, 1 <= n <= 6, becomes <hn>rest</hn> in the header step and
\* one heading element of level n in the body; every other line (seven
\* hashes or more, or nothing after the space) is left as it is and becomes
\* no heading element.
C6_HeaderLevels ==
    rendered =>
        LET lines == Split(md_content, NL)
            escaped == Split(EscapeHtml(md_content), NL)
            heading(j) == {n \in 1..6 : HeadingLine(lines[j], n)}
            level(j) == CHOOSE n \in heading(j) : TRUE
            expected(j) ==
                IF heading(j) = {} THEN escaped[j]
                ELSE HOpen(level(j))
                     \o SubSeq(escaped[j], level(j) + 2, Len(escaped[j]))
                     \o HClose(level(j))
        IN /\ Split(Headers(EscapeHtml(md_content)), NL)
                = [j \in 1..Len(lines) |-> expected(j)]
           /\ \A n \in 1..6 :
                 LET k == Cardinality({j \in 1..Len(lines) : HeadingLine(lines[j], n)})
                 IN Count(html, HOpen(n)) = k /\ Count(html, HClose(n)) = k

\* A state the header claim is about: a line of six hashes is a heading of
\* level six, the line of seven hashes after it is left as it is.
C6_Witness ==
    /\ rendered
    /\ md_content = Hashes(6) \o <<" ", "A", NL>> \o Hashes(7) \o <<" ", "A">>
    /\ html = POpen \o HOpen(6) \o <<"A">> \o HClose(6) \o <<NL>>
                    \o Hashes(7) \o <<" ", "A">> \o PClose

ImageAlt(s) == SubSeq(s, 3, FirstOf(s, 3, {"]"}) - 1)

ImageUrl(s) == SubSeq(s, FirstOf(s, 3, {"]"}) + 2, Len(s) - 1)

\* C8: a text ![alt](url) is rendered as an image element with src = url and
\* alt = alt, and the body holds no anchor element.
C8_ImageNotLink ==
    rendered =>
        /\ Contains(html, ImgSrc \o ImageUrl(md_content) \o ImgAlt
                                 \o ImageAlt(md_content) \o ImgEnd)
        /\ ~Contains(html, AOpen)
        /\ ~Contains(html, AClose)

\* C10: in the body of every text the <ul> and </ul> tags are as many, and
\* every <li> lies inside a list container: more <ul> than </ul> before it,
\* and a </ul> after it.
C10_ListsWrapped ==
    rendered =>
        /\ Count(html, UlOpen) = Count(html, UlClose)
        /\ \A i \in 1..Len(html) :
              StartsWithAt(html, i, LiOpen) =>
                  /\ Count(SubSeq(html, 1, i - 1), UlOpen)
                        > Count(SubSeq(html, 1, i - 1), UlClose)
                  /\ Contains(SubSeq(html, i, Len(html)), UlClose)

====
